---- MODULE Spec2Model ----
(***************************************************************************)
(* Model of the pathway request handler of src/lambda_function.py:         *)
(* lambda_handler (cache lookup, three agents run on a thread pool, merge  *)
(* of their results, cache write, response) together with the three agent  *)
(* functions generate_pathway_structure, generate_career_outcomes and      *)
(* match_certifications.                                                   *)
(*                                                                         *)
(* Python values are tagged records:                                       *)
(*   None            [ty |-> "none"]                                       *)
(*   str             [ty |-> "str",  s |-> <<atoms>>]                      *)
(*   int             [ty |-> "num",  n |-> k]                              *)
(*   bool            [ty |-> "bool", b |-> TRUE or FALSE]                  *)
(*   Decimal         [ty |-> "dec",  n |-> k]                              *)
(*   list            [ty |-> "list", l |-> <<values>>]                     *)
(*   dict            [ty |-> "dict", d |-> function from keys to values]   *)
(* A string is a sequence of atoms (a word, a blank " ", a comma ",", the  *)
(* course separator " - "); substring tests are made on the atoms of the   *)
(* lowercased string.                                                      *)
(***************************************************************************)
EXTENDS Integers, Sequences, FiniteSets, TLC

VARIABLES
    pc,          \* position of lambda_handler
    event,       \* the request body: a record with the fields career and degreeLevel it carries
    career,      \* body.get('career', '').strip()
    degree_level,\* body.get('degreeLevel', 'associate').strip()
    career_id,   \* the DynamoDB key of the request
    table,       \* CareerPathways table: key -> item
    fut,         \* the three futures: task -> [st, val]
    now,         \* seconds since the tasks were submitted
    waitStart,   \* time at which the current future.result(timeout) call began
    late,        \* task -> the task returned after its own deadline counted from submission
    recorded,    \* task -> how the handler recorded the task: "none", "result", "timeout"
    pathway_data,
    career_data,
    certifications_data,
    response,    \* what lambda_handler returned
    writes,      \* number of put_item calls made for this request
    get_result,  \* what table.get_item gave this request: nothing yet, no item, an item, an error
    write_error, \* "DynamoDB write error" was printed for this request
    served,      \* the requests handled before this one, oldest first
    rival,       \* a second invocation of lambda_handler for the same request: [pc, doc, ...]
    probe        \* a direct call of one agent function: [fn, its arguments, out]

vars == <<pc, event, career, degree_level, career_id, table, fut, now, waitStart,
          late, recorded, pathway_data, career_data, certifications_data, response, writes,
          get_result, write_error, served, rival, probe>>

----------------------------------------------------------------------------
(* Python values *)

None == [ty |-> "none"]

Str(s) == [ty |-> "str", s |-> s]

Num(n) == [ty |-> "num", n |-> n]

List(l) == [ty |-> "list", l |-> l]

Dict(d) == [ty |-> "dict", d |-> d]

EmptyDict == Dict(<<>>)

Bool(b) == [ty |-> "bool", b |-> b]

False == Bool(FALSE)

\* decimal.Decimal(n), what the table resource hands back for a stored number
Dec(n) == [ty |-> "dec", n |-> n]

IsNone(v) == v.ty = "none"

IsStr(v) == v.ty = "str"

IsList(v) == v.ty = "list"

IsDict(v) == v.ty = "dict"

\* bool(v)
Truthy(v) ==
    CASE v.ty = "none" -> FALSE
      [] v.ty = "str"  -> v.s # <<>>
      [] v.ty = "num"  -> v.n # 0
      [] v.ty = "dec"  -> v.n # 0
      [] v.ty = "bool" -> v.b
      [] v.ty = "list" -> v.l # <<>>
      [] v.ty = "dict" -> DOMAIN v.d # {}

\* k in d, for a dict d
Has(v, k) == k \in DOMAIN v.d

\* d.get(k)
Get(v, k) == IF k \in DOMAIN v.d THEN v.d[k] ELSE None

\* d.get(k, default)
GetOr(v, k, default) == IF k \in DOMAIN v.d THEN v.d[k] ELSE default

\* d[k] = x
Put(v, k, x) == Dict([j \in (DOMAIN v.d) \cup {k} |-> IF j = k THEN x ELSE v.d[j]])

\* del d[k]
Del(v, k) == Dict([j \in (DOMAIN v.d) \ {k} |-> v.d[j]])

\* `k in v` raises TypeError for values that are not containers
InRaises(v) == v.ty \in {"none", "num", "dec", "bool"}

\* `k in v` for a dict (key), a list (element) or a str (substring of one atom)
In(k, v) ==
    CASE v.ty = "dict" -> k \in DOMAIN v.d
      [] v.ty = "list" -> \E i \in 1..Len(v.l) : v.l[i] = Str(<<k>>)
      [] v.ty = "str"  -> \E i \in 1..Len(v.s) : v.s[i] = k
      [] OTHER -> FALSE

----------------------------------------------------------------------------
(* Strings *)

\* str.lower() of one atom
LowerAtom(a) ==
    CASE a = "Entry-Level" -> "entry-level"
      [] a = "Position"    -> "position"
      [] a = "Job"         -> "job"
      [] a = "Title"       -> "title"
      [] a = "Mid-Career"  -> "mid-career"
      [] a = "Nurse"       -> "nurse"
      [] a = "Coach"       -> "coach"
      [] a = "Registered"  -> "registered"
      [] a = "Charge"      -> "charge"
      [] a = "Assistant"   -> "assistant"
      [] a = "Specialist"  -> "specialist"
      [] a = "Professional" -> "professional"
      [] a = "Senior"      -> "senior"
      [] a = "Manager"     -> "manager"
      [] a = "BS"          -> "bs"
      [] OTHER -> a

\* str.upper() of one atom
UpperAtom(a) ==
    CASE a = "enc1101" -> "ENC1101"
      [] a = "nur1025" -> "NUR1025"
      [] OTHER -> a

\* s.upper()
Upper(s) == [i \in 1..Len(s) |-> UpperAtom(s[i])]

\* s.lower()
Lower(s) == [i \in 1..Len(s) |-> LowerAtom(s[i])]

\* pat in s
Contains(s, pat) ==
    \E i \in 0..(Len(s) - Len(pat)) : \A j \in 1..Len(pat) : s[i + j] = pat[j]

RECURSIVE LStrip(_)
LStrip(s) == IF s # <<>> /\ Head(s) = " " THEN LStrip(Tail(s)) ELSE s

RECURSIVE RStrip(_)
RStrip(s) == IF s # <<>> /\ s[Len(s)] = " " THEN RStrip(SubSeq(s, 1, Len(s) - 1)) ELSE s

\* s.strip()
Strip(s) == RStrip(LStrip(s))

\* l[:n]
Take(l, n) == SubSeq(l, 1, IF Len(l) < n THEN Len(l) ELSE n)

\* a one-atom string
S(a) == Str(<<a>>)

RECURSIVE SetToSeq(_)
SetToSeq(A) == IF A = {} THEN <<>>
               ELSE LET a == CHOOSE x \in A : TRUE IN <<a>> \o SetToSeq(A \ {a})

\* `for x in v` raises TypeError for values that are not iterable
IterRaises(v) == v.ty \in {"none", "num", "dec", "bool"}

\* the elements `for x in v` visits: list items, characters of a str, keys of a dict
Items(v) ==
    CASE v.ty = "list" -> v.l
      [] v.ty = "str"  -> [i \in 1..Len(v.s) |-> Str(<<v.s[i]>>)]
      [] v.ty = "dict" -> LET ks == SetToSeq(DOMAIN v.d) IN [i \in 1..Len(ks) |-> Str(<<ks[i]>>)]
      [] OTHER -> <<>>

----------------------------------------------------------------------------
(* Fallback content shared by the agents and the handler *)

\* f"Starting with an Associate's degree at MDC ... your {career} career. ..."
DefaultNote(c) == Str(<<"Starting with an Associate's degree at MDC provides a solid foundation for your", " ">>
                      \o c \o <<" ", "career. Focus on building core skills">>)

\* {'programs': [f'MDC {career} Associate Program'], 'duration': '2 years', 'keyCourses': ['Core courses']}
AssociatesSkeleton(c) ==
    Dict([programs   |-> List(<<Str(<<"MDC", " ">> \o c \o <<" ", "Associate", " ", "Program">>)>>),
          duration   |-> S("2 years"),
          keyCourses |-> List(<<S("Core courses")>>)])

\* a fallback section whose duration is a number
AssociatesPathway_NumericDuration(c) ==
    Dict([programs   |-> List(<<Str(<<"MDC", " ">> \o c \o <<" ", "Pathway">>)>>),
          duration   |-> Num(2),
          keyCourses |-> List(<<S("Core courses")>>)])

\* {"programs": [f"MDC {career} Pathway"], "duration": "2 years", "keyCourses": ["Core courses"]}
AssociatesPathway(c) ==
    Dict([programs   |-> List(<<Str(<<"MDC", " ">> \o c \o <<" ", "Pathway">>)>>),
          duration   |-> S("2 years"),
          keyCourses |-> List(<<S("Core courses")>>)])

BachelorsSkeleton ==
    Dict([universities |-> List(<<S("Transfer to 4-year university")>>),
          duration     |-> S("2 years (after AA)"),
          keyCourses   |-> List(<<S("Advanced courses")>>)])

BachelorsMDC ==
    Dict([universities |-> List(<<S("Miami Dade College")>>),
          duration     |-> S("4 years"),
          keyCourses   |-> List(<<S("Advanced courses")>>)])

Job(title, salary) == Dict([title |-> Str(title), salary |-> S(salary)])

\* entryLevel "<career> Assistant", midCareer "<career> Specialist"
AssociatesOutcomesFallback(c) ==
    Dict([entryLevel |-> List(<<Job(c \o <<" ", "Assistant">>, "35000-45000")>>),
          midCareer  |-> List(<<Job(c \o <<" ", "Specialist">>, "50000-70000")>>)])

\* entryLevel "<career> Professional", midCareer "Senior <career>"
BachelorsOutcomesFallback(c) ==
    Dict([entryLevel |-> List(<<Job(c \o <<" ", "Professional">>, "55000-70000")>>),
          midCareer  |-> List(<<Job(<<"Senior", " ">> \o c, "75000-110000")>>)])

\* the provider call failed, timed out inside the agent, or its answer was not JSON
ProviderError == [ty |-> "error"]

----------------------------------------------------------------------------
(* validate_courses_against_mdc *)

\* course.split(' - ')[0]
RECURSIVE BeforeDash(_)
BeforeDash(s) == IF s = <<>> \/ Head(s) = " - " THEN <<>> ELSE <<Head(s)>> \o BeforeDash(Tail(s))

\* {course.get('code', '').upper() for course in mdc_data['courses'] if course.get('code')}
MdcCourseCodes(mdc_data) ==
    LET cs == Items(Get(mdc_data, "courses"))
    IN {Upper(Get(cs[i], "code").s) : i \in {j \in 1..Len(cs) : Truthy(Get(cs[j], "code"))}}

\* the code the loop looks up for one recommended course
CourseCode(course) ==
    IF IsStr(course) THEN Upper(Strip(BeforeDash(course.s)))
    ELSE Upper(GetOr(course, "code", Str(<<>>)).s)

\* the statements of validate_courses_against_mdc that raise
ValidateRaises(courses, mdc_data) ==
    /\ Truthy(mdc_data) /\ Has(mdc_data, "courses") /\ Truthy(Get(mdc_data, "courses"))
    /\ LET cs == Items(Get(mdc_data, "courses"))
           rs == Items(courses)
       IN \/ \E i \in 1..Len(cs) : ~IsDict(cs[i])
          \/ \E i \in 1..Len(cs) : IsDict(cs[i]) /\ Truthy(Get(cs[i], "code")) /\ ~IsStr(Get(cs[i], "code"))
          \/ IterRaises(courses)
          \/ \E i \in 1..Len(rs) : IsDict(rs[i]) /\ ~IsStr(GetOr(rs[i], "code", Str(<<>>)))

validate_courses_against_mdc(courses, mdc_data) ==
    IF ~Truthy(mdc_data) \/ ~Has(mdc_data, "courses") \/ ~Truthy(Get(mdc_data, "courses"))
    THEN courses
    ELSE LET codes == MdcCourseCodes(mdc_data)
             valid_courses == SelectSeq(Items(courses),
                                  LAMBDA course : (IsStr(course) \/ IsDict(course))
                                                  /\ CourseCode(course) \in codes)
         IN IF valid_courses # <<>> THEN List(valid_courses) ELSE courses

----------------------------------------------------------------------------
(* generate_pathway_structure (Agent 1) *)

\* the filter applied to one entry of certifications / exams
ValidCert(cert) ==
    \/ IsDict(cert) /\ (Truthy(Get(cert, "name")) \/ Truthy(Get(cert, "title")))
    \/ IsStr(cert) /\ Strip(cert.s) # <<>>

\* lines 533-549 and 551-567: drop the key when empty, keep only the valid entries
CleanList(pd, key) ==
    IF ~Has(pd, key) THEN pd
    ELSE IF ~Truthy(Get(pd, key)) THEN Del(pd, key)
    ELSE LET valid == SelectSeq(Items(Get(pd, key)), ValidCert)
         IN IF valid # <<>> THEN Put(pd, key, List(valid)) ELSE Del(pd, key)

\* lines 569-575: keyCourses[:5] of one section
LimitCourses(pd, section) ==
    IF Has(pd, section) /\ In("keyCourses", Get(pd, section))
       /\ IsList(Get(Get(pd, section), "keyCourses"))
    THEN Put(pd, section, Put(Get(pd, section), "keyCourses",
                              List(Take(Get(Get(pd, section), "keyCourses").l, 5))))
    ELSE pd

\* f"{code} - {name}" / name / the course itself, lines 622-632
FullCourseList(mdc_data) ==
    LET cs == Items(Get(mdc_data, "courses"))
        One(course) ==
            IF IsDict(course)
            THEN LET code == GetOr(course, "code", Str(<<>>))
                     name == GetOr(course, "name", Str(<<>>))
                 IN IF Truthy(code) /\ Truthy(name)
                    THEN <<Str(code.s \o <<" - ">> \o name.s)>>
                    ELSE IF Truthy(name) THEN <<name>> ELSE <<>>
            ELSE IF IsStr(course) THEN <<course>> ELSE <<>>
        RECURSIVE Build(_)
        Build(i) == IF i > Len(cs) THEN <<>> ELSE One(cs[i]) \o Build(i + 1)
    IN List(Build(1))

\* mdc_data.get('degreeType', '').lower() in ['bachelor', 'bachelors', 'ba', 'bs']
MdcIsBachelor(mdc_data) ==
    /\ Truthy(mdc_data)
    /\ Lower(GetOr(mdc_data, "degreeType", Str(<<>>)).s) \in {<<"bachelor">>, <<"bachelors">>, <<"ba">>, <<"bs">>}

\* the except branch, lines 651-675
StructureFallback(c, dl) ==
    LET fallback == Dict([career |-> Str(c), degreeLevel |-> Str(<<dl>>),
                          associates |-> AssociatesPathway(c),
                          certifications |-> List(<<>>), exams |-> List(<<>>),
                          internships |-> List(<<>>)])
    IN IF dl = "bachelor" THEN Put(fallback, "bachelors", BachelorsSkeleton) ELSE fallback

\* the statements of the try block that raise on the parsed provider answer pd
StructureRaises(pd) ==
    \/ ~IsDict(pd)
    \/ /\ IsDict(pd)
       /\ \/ \E key \in {"certifications", "exams"} :
                Has(pd, key) /\ Truthy(Get(pd, key)) /\ IterRaises(Get(pd, key))
          \/ \E section \in {"associates", "bachelors"} :
                /\ Has(pd, section)
                /\ \/ InRaises(Get(pd, section))
                   \/ In("keyCourses", Get(pd, section)) /\ ~IsDict(Get(pd, section))

\* lines 577-583: associates is always present
EnsureAssociatesSection(c, pd) ==
    IF ~Has(pd, "associates") THEN Put(pd, "associates", AssociatesSkeleton(c)) ELSE pd

\* lines 585-603: bachelors is present when the request asks for it
EnsureBachelorsSection(dl, mdc_data, pd) ==
    IF dl = "bachelor" /\ ~Has(pd, "bachelors")
    THEN Put(pd, "bachelors", IF MdcIsBachelor(mdc_data) THEN BachelorsMDC ELSE BachelorsSkeleton)
    ELSE pd

\* lines 605-613: keep the recommended key courses that MDC offers
ValidateKeyCourses(mdc_data, pd) ==
    IF /\ Truthy(mdc_data) /\ In("keyCourses", Get(pd, "associates")) /\ IsDict(Get(pd, "associates"))
       /\ ~ValidateRaises(Get(Get(pd, "associates"), "keyCourses"), mdc_data)
    THEN Put(pd, "associates",
             Put(Get(pd, "associates"), "keyCourses",
                 validate_courses_against_mdc(Get(Get(pd, "associates"), "keyCourses"), mdc_data)))
    ELSE pd

\* lines 615-617
RelatedMDCProgram(mdc_data, pd) ==
    IF Truthy(mdc_data) THEN Put(pd, "relatedMDCProgram", Get(mdc_data, "programName")) ELSE pd

\* lines 619-638: the full course list of the MDC program
AttachFullCourseList(mdc_data, pd) ==
    IF Truthy(mdc_data) /\ Has(mdc_data, "courses") /\ Truthy(Get(mdc_data, "courses"))
    THEN Put(pd, "associates",
             Put(IF IsDict(Get(pd, "associates")) THEN Get(pd, "associates") ELSE EmptyDict,
                 "fullCourseList", FullCourseList(mdc_data)))
    ELSE pd

\* lines 640-644: note from advisorNote, or the default note
EnsureAgentNote(c, pd) ==
    IF ~Has(pd, "note") /\ Has(pd, "advisorNote") THEN Put(pd, "note", Get(pd, "advisorNote"))
    ELSE IF ~Has(pd, "note") \/ ~Truthy(Get(pd, "note")) THEN Put(pd, "note", DefaultNote(c))
    ELSE pd

generate_pathway_structure(c, dl, answer, mdc_data) ==
    IF answer.ty = "error" \/ StructureRaises(answer) THEN StructureFallback(c, dl)
    ELSE Put(EnsureAgentNote(c,
             AttachFullCourseList(mdc_data,
             RelatedMDCProgram(mdc_data,
             ValidateKeyCourses(mdc_data,
             EnsureBachelorsSection(dl, mdc_data,
             EnsureAssociatesSection(c,
             LimitCourses(LimitCourses(CleanList(CleanList(answer, "certifications"), "exams"),
                                       "associates"), "bachelors"))))))),
             "rawResponse", S("raw"))

----------------------------------------------------------------------------
(* generate_career_outcomes (Agent 2) *)

\* the fallback with both sections left null
OutcomesFallback_NullSections(c) ==
    Dict([associates |-> None, bachelors |-> None])

\* the except branch, lines 770-787, and the timeout branch of the handler, lines 1107-1120
OutcomesFallback(c) ==
    Dict([associates |-> Dict([careerOutcomes |-> AssociatesOutcomesFallback(c)]),
          bachelors  |-> Dict([careerOutcomes |-> BachelorsOutcomesFallback(c)])])

\* the parsed provider answer is returned as it is; any failure gives the fallback
generate_career_outcomes(c, dl, answer) ==
    IF answer.ty = "error" THEN OutcomesFallback(c) ELSE answer

----------------------------------------------------------------------------
(* match_certifications (Agent 4) *)

\* len(a) of one atom
AtomLen(a) ==
    CASE a = "," -> 1
      [] a = "rn" -> 2
      [] a = "it" -> 2
      [] OTHER -> 5

RECURSIVE StrLen(_)
StrLen(s) == IF s = <<>> THEN 0 ELSE AtomLen(Head(s)) + StrLen(Tail(s))

\* s.split(): the maximal runs of atoms between blanks
RECURSIVE Split(_)
Split(s) ==
    IF s = <<>> THEN <<>>
    ELSE IF Head(s) = " " THEN Split(Tail(s))
    ELSE LET rest == Split(Tail(s))
         IN IF Len(s) > 1 /\ s[2] # " "
            THEN <<(<<Head(s)>> \o Head(rest))>> \o Tail(rest)
            ELSE <<(<<Head(s)>>)>> \o rest

\* any(keyword in text ... for keyword in career_keywords if len(keyword) > 3)
KeywordHit(c, texts) ==
    LET career_keywords == Split(Lower(c))
    IN \E i \in 1..Len(career_keywords) :
          /\ StrLen(career_keywords[i]) > 3
          /\ \E t \in texts : Contains(Lower(t), career_keywords[i])

\* certificateName, description, pdfContent of one item
CertTexts(item) ==
    {GetOr(item, f, Str(<<>>)).s : f \in {"certificateName", "description", "pdfContent"}}

\* clubName, notes, schoolArea and the suggested majors of one item
ClubTexts(item) ==
    {GetOr(item, f, Str(<<>>)).s : f \in {"clubName", "notes", "schoolArea"}}
    \cup LET ms == GetOr(item, "suggestedMajors", List(<<>>)).l
         IN {ms[i].s : i \in {j \in 1..Len(ms) : IsStr(ms[j])}}

\* lines 802-823 and 825-849: the scan of one table, None when the scan raises
PotentialMatches(c, scan, isClubs) ==
    IF IsNone(scan) THEN <<>>
    ELSE Take(SelectSeq(scan.l, LAMBDA item :
                  KeywordHit(c, IF isClubs THEN ClubTexts(item) ELSE CertTexts(item))), 20)

\* one entry of the provider's list is kept
KeepMatch(m, direct) ==
    /\ direct => Get(m, "relevance") \in {S("high"), S("medium")}
    /\ Strip(GetOr(m, "name", Str(<<>>)).s) # <<>>

\* evaluating the comprehension over the provider's list raises
MatchListRaises(lst, direct) ==
    \/ IterRaises(lst)
    \/ ~direct /\ IsDict(lst)
    \/ LET ms == IF direct THEN Items(lst) ELSE Take(Items(lst), 5)
       IN \E i \in 1..Len(ms) :
             \/ ~IsDict(ms[i])
             \/ /\ direct => Get(ms[i], "relevance") \in {S("high"), S("medium")}
                /\ ~IsStr(GetOr(ms[i], "name", Str(<<>>)))

\* lines 937-955 (direct parse) and 964-975 (JSON found by the regular expression)
MatchList(lst, direct, extra) ==
    LET ms   == IF direct THEN Items(lst) ELSE Take(Items(lst), 5)
        kept == SelectSeq(ms, LAMBDA m : KeepMatch(m, direct))
        out  == [i \in 1..Len(kept) |->
                    Dict([k \in {"name"} \cup DOMAIN extra |->
                            IF k = "name" THEN Str(Strip(Get(kept[i], "name").s)) ELSE extra[k]])]
    IN List(IF direct THEN Take(out, 5) ELSE out)

\* scans are lists of items or None when the scan raised; answer is ProviderError or
\* [ty |-> "parsed", direct, matches]; keyOk is FALSE when get_gemini_api_key raises
match_certifications(c, dl, certScan, clubScan, answer, keyOk) ==
    LET empty == Dict([certifications |-> List(<<>>), clubs |-> List(<<>>)])
        potential_cert_matches == PotentialMatches(c, certScan, FALSE)
        potential_club_matches == PotentialMatches(c, clubScan, TRUE)
    IN IF ~keyOk THEN empty
       ELSE IF potential_cert_matches = <<>> /\ potential_club_matches = <<>> THEN empty
       ELSE IF answer.ty = "error" THEN empty
       ELSE LET matches == answer.matches
                direct  == answer.direct
            IN IF InRaises(matches) THEN empty
               ELSE LET hasCerts == In("certifications", matches)
                        certsRaise == hasCerts /\ (~IsDict(matches)
                                         \/ MatchListRaises(Get(matches, "certifications"), direct))
                        related_certs ==
                            IF hasCerts /\ ~certsRaise
                            THEN MatchList(Get(matches, "certifications"), direct, [required |-> False])
                            ELSE List(<<>>)
                        hasClubs == ~certsRaise /\ In("clubs", matches)
                        clubsRaise == hasClubs /\ (~IsDict(matches)
                                         \/ MatchListRaises(Get(matches, "clubs"), direct))
                        related_clubs ==
                            IF hasClubs /\ ~clubsRaise
                            THEN MatchList(Get(matches, "clubs"), direct, <<>>)
                            ELSE List(<<>>)
                    IN Dict([certifications |-> related_certs, clubs |-> related_clubs])

----------------------------------------------------------------------------
(* The merge of lambda_handler, lines 1130-1333 *)

get_static_financial_data(dl) ==
    LET associates == Dict([tuitionPerYear |-> S("4000-6000"), housingPerMonth |-> S("800-1200"),
                            booksPerYear |-> S("1200"), totalCost |-> S("12000-18000")])
        bachelors  == Dict([tuitionPerYear |-> S("8000-25000"), housingPerMonth |-> S("1000-1500"),
                            booksPerYear |-> S("1500"), totalCost |-> S("21000-35000")])
    IN IF dl = "bachelor" THEN Dict([associates |-> associates, bachelors |-> bachelors])
       ELSE Dict([associates |-> associates])

\* the default of financial_data.get('bachelors', {...})
BachelorsFinancialDefault ==
    Dict([tuitionPerYear |-> S("8000-25000"), housingPerMonth |-> S("1000-1500"),
          booksPerYear |-> S("1500"), totalCost |-> S("21000-35000")])

\* the default of financial_data.get('associates', {...})
AssociatesFinancialDefault ==
    Dict([tuitionPerYear |-> S("4000-6000"), housingPerMonth |-> S("800-1200"),
          booksPerYear |-> S("1200"), totalCost |-> S("12000-18000")])

\* job.get('title', '').lower() contains pat
TitleHas(job, pat) == Contains(Lower(GetOr(job, "title", Str(<<>>)).s), pat)

\* the entryLevel filter with the last `and` written as `or`
EntryKeep_OrPrecedence(job) ==
    \/ /\ Truthy(Get(job, "title"))
       /\ ~TitleHas(job, <<"entry-level">>)
       /\ ~TitleHas(job, <<"position">>)
    \/ ~TitleHas(job, <<"job", " ", "title">>)

\* lines 1167 and 1253: the entryLevel filter
EntryKeep(job) ==
    /\ Truthy(Get(job, "title"))
    /\ ~TitleHas(job, <<"entry-level">>)
    /\ ~TitleHas(job, <<"position">>)
    /\ ~TitleHas(job, <<"job", " ", "title">>)

EntryKeepRaises(job) ==
    \/ ~IsDict(job)
    \/ IsDict(job) /\ Truthy(Get(job, "title")) /\ ~IsStr(Get(job, "title"))

\* line 1218: the entryLevel filter of the bachelor request, `a and b and c or d`
BachelorEntryKeep(job) ==
    \/ /\ Truthy(Get(job, "title"))
       /\ ~TitleHas(job, <<"entry-level">>)
       /\ ~TitleHas(job, <<"position">>)
    \/ ~TitleHas(job, <<"job", " ", "title">>)

BachelorEntryKeepRaises(job) ==
    \/ ~IsDict(job)
    \/ IsDict(job) /\ ~IsStr(GetOr(job, "title", Str(<<>>)))

\* lines 1171, 1222 and 1257: the midCareer filter
MidKeep(job) ==
    /\ Truthy(Get(job, "title"))
    /\ ~TitleHas(job, <<"mid-career">>)
    /\ ~TitleHas(job, <<"position">>)

\* the guard `career_data and isinstance(career_data, dict) and section in career_data
\* and 'careerOutcomes' in career_data[section]`, when it does not raise
OutcomesGuard(cd, section) ==
    Truthy(cd) /\ IsDict(cd) /\ Has(cd, section) /\ In("careerOutcomes", Get(cd, section))

\* the statements of one careerOutcomes block that raise
OutcomesBlockRaises(cd, section, bachelorRequest) ==
    LET Keep(job) == IF bachelorRequest THEN BachelorEntryKeep(job) ELSE EntryKeep(job)
        KeepRaises(job) == IF bachelorRequest THEN BachelorEntryKeepRaises(job) ELSE EntryKeepRaises(job)
    IN
    /\ Truthy(cd) /\ IsDict(cd) /\ Has(cd, section)
    /\ LET sec == Get(cd, section)
       IN \/ InRaises(sec)
          \/ /\ In("careerOutcomes", sec)
             /\ \/ ~IsDict(sec)
                \/ /\ IsDict(sec)
                   /\ LET o == Get(sec, "careerOutcomes")
                      IN \/ ~IsDict(o)
                         \/ /\ IsDict(o)
                            /\ LET e == Get(o, "entryLevel")
                                   m == Get(o, "midCareer")
                               IN /\ Truthy(e)
                                  /\ \/ IterRaises(e)
                                     \/ \E i \in 1..Len(Items(e)) : KeepRaises(Items(e)[i])
                                     \/ /\ \A i \in 1..Len(Items(e)) : ~KeepRaises(Items(e)[i])
                                        /\ SelectSeq(Items(e), Keep) # <<>>
                                        /\ Truthy(m)
                                        /\ \/ IterRaises(m)
                                           \/ \E i \in 1..Len(Items(m)) : EntryKeepRaises(Items(m)[i])

\* one careerOutcomes block (lines 1162-1188, 1213-1238, 1248-1273): the value stored
OutcomesBlock(cd, section, fallback, bachelorRequest) ==
    LET Keep(job) == IF bachelorRequest THEN BachelorEntryKeep(job) ELSE EntryKeep(job)
    IN
    IF OutcomesGuard(cd, section)
    THEN LET o == Get(Get(cd, section), "careerOutcomes")
             e == Get(o, "entryLevel")
             m == Get(o, "midCareer")
         IN IF Truthy(e)
            THEN LET valid_entry == SelectSeq(Items(e), Keep)
                 IN IF valid_entry # <<>>
                    THEN Dict([entryLevel |-> List(valid_entry),
                               midCareer  |-> IF Truthy(m) THEN List(SelectSeq(Items(m), MidKeep))
                                              ELSE List(<<>>)])
                    ELSE fallback
            ELSE fallback
    ELSE fallback

\* lines 1294-1297: append the certifications whose name is not yet known
RECURSIVE AppendNew(_, _, _)
AppendNew(certs, existing_names, new) ==
    IF new = <<>> THEN certs
    ELSE LET cert == Head(new)
         IN IF IsDict(cert) /\ Get(cert, "name") \notin existing_names
            THEN AppendNew(Append(certs, cert),
                           existing_names \cup {GetOr(cert, "name", Str(<<>>))}, Tail(new))
            ELSE AppendNew(certs, existing_names, Tail(new))

\* lines 1286-1301: certifications and clubs of Agent 4
MergeCredentials(pd, xd) ==
    IF Truthy(xd) /\ IsDict(xd)
    THEN LET have == Get(pd, "certifications")
             more == Get(xd, "certifications")
             p1 == IF ~Has(pd, "certifications") \/ ~Truthy(have)
                   THEN IF Truthy(more) THEN Put(pd, "certifications", more) ELSE pd
                   ELSE IF Truthy(have) /\ Truthy(more)
                        THEN LET hs == Items(have)
                                 existing_names ==
                                     {GetOr(hs[i], "name", Str(<<>>)) : i \in {j \in 1..Len(hs) : IsDict(hs[j])}}
                             IN Put(pd, "certifications", List(AppendNew(hs, existing_names, Items(more))))
                        ELSE pd
         IN IF Truthy(Get(xd, "clubs")) THEN Put(p1, "clubs", Get(xd, "clubs")) ELSE p1
    ELSE pd

MergeCredentialsRaises(pd, xd) ==
    /\ Truthy(xd) /\ IsDict(xd)
    /\ Has(pd, "certifications") /\ Truthy(Get(pd, "certifications")) /\ Truthy(Get(xd, "certifications"))
    /\ \/ IterRaises(Get(pd, "certifications"))
       \/ IterRaises(Get(xd, "certifications"))
       \/ /\ ~IsList(Get(pd, "certifications"))
          /\ \E i \in 1..Len(Items(Get(xd, "certifications"))) : IsDict(Items(Get(xd, "certifications"))[i])

\* lines 1134-1153: pathway_data is a dict with a dict under 'associates'
EnsureAssociates(c, pd0) ==
    LET m1 == IF ~IsDict(pd0) THEN EmptyDict ELSE pd0
        m2 == IF ~Has(m1, "associates") \/ ~Truthy(Get(m1, "associates"))
              THEN Put(m1, "associates", AssociatesSkeleton(c)) ELSE m1
    IN IF ~IsDict(Get(m2, "associates")) THEN Put(m2, "associates", AssociatesSkeleton(c)) ELSE m2

\* lines 1155-1188: financial and careerOutcomes of associates
MergeAssociates(c, dl, pd, cd) ==
    LET a1 == Put(Get(pd, "associates"), "financial",
                  GetOr(get_static_financial_data(dl), "associates", AssociatesFinancialDefault))
        a2 == Put(a1, "careerOutcomes",
                  OutcomesBlock(cd, "associates", AssociatesOutcomesFallback(c), FALSE))
    IN Put(pd, "associates", a2)

\* lines 1190-1273: the bachelors section
MergeBachelors(c, dl, pd, cd) ==
    IF dl = "bachelor"
    THEN LET b1 == IF ~Has(pd, "bachelors") \/ ~Truthy(Get(pd, "bachelors"))
                   THEN BachelorsSkeleton ELSE Get(pd, "bachelors")
             b2 == IF ~IsDict(b1) THEN BachelorsSkeleton ELSE b1
             b3 == Put(b2, "financial",
                       GetOr(get_static_financial_data(dl), "bachelors", BachelorsFinancialDefault))
             b4 == Put(b3, "careerOutcomes",
                       OutcomesBlock(cd, "bachelors", BachelorsOutcomesFallback(c), TRUE))
         IN Put(pd, "bachelors", b4)
    ELSE IF Has(pd, "bachelors") /\ Truthy(Get(pd, "bachelors")) /\ IsDict(Get(pd, "bachelors"))
    THEN LET b3 == Put(Get(pd, "bachelors"), "financial",
                       GetOr(get_static_financial_data(dl), "bachelors", BachelorsFinancialDefault))
             b4 == Put(b3, "careerOutcomes",
                       OutcomesBlock(cd, "bachelors", BachelorsOutcomesFallback(c), FALSE))
         IN Put(pd, "bachelors", b4)
    ELSE pd

\* the bachelors careerOutcomes block is reached
BachelorsBlockReached(dl, pd) ==
    \/ dl = "bachelor"
    \/ Has(pd, "bachelors") /\ Truthy(Get(pd, "bachelors")) /\ IsDict(Get(pd, "bachelors"))

\* lines 1316-1333: the final safety check
FinalCheck(c, pd) ==
    IF ~Has(pd, "associates") \/ ~IsDict(Get(pd, "associates"))
    THEN Put(pd, "associates",
             Put(Put(AssociatesSkeleton(c), "financial", AssociatesFinancialDefault),
                 "careerOutcomes", AssociatesOutcomesFallback(c)))
    ELSE pd

\* an exception leaves the merge (and is caught at line 1366)
MergeRaises(c, dl, pd0, cd, xd) ==
    LET m3 == EnsureAssociates(c, pd0)
    IN \/ OutcomesBlockRaises(cd, "associates", FALSE)
       \/ /\ BachelorsBlockReached(dl, m3)
          /\ IF dl = "bachelor"
             THEN OutcomesBlockRaises(cd, "bachelors", TRUE)
             ELSE OutcomesBlockRaises(cd, "bachelors", FALSE)
       \/ MergeCredentialsRaises(m3, xd)

\* lines 1275-1279: career and degreeLevel are set when missing
EnsureCareer(c, dl, pd) ==
    Dict([k \in DOMAIN pd.d \cup {"career", "degreeLevel"} |->
            IF k \in DOMAIN pd.d THEN pd.d[k]
            ELSE IF k = "career" THEN Str(c) ELSE Str(<<dl>>)])

\* a note that is set only when the key is missing
EnsureNote_MissingOnly(c, pd) ==
    IF ~Has(pd, "note") THEN Put(pd, "note", DefaultNote(c)) ELSE pd

\* lines 1281-1283
EnsureNote(c, pd) ==
    IF ~Has(pd, "note") \/ ~Truthy(Get(pd, "note")) THEN Put(pd, "note", DefaultNote(c)) ELSE pd

\* lines 1313-1314
EnsureInternships(pd) ==
    IF ~Has(pd, "internships") THEN Put(pd, "internships", List(<<>>)) ELSE pd

\* the merge that treats associates the way lines 1239-1241 treat bachelors: the section is
\* defaulted when the key is absent and filled in only when it is a record
Merge_AssociatesUnchecked(c, dl, pd0, cd, xd) ==
    LET KeyPresent(pd) ==
            IF ~IsDict(pd) THEN Put(EmptyDict, "associates", AssociatesSkeleton(c))
            ELSE IF ~Has(pd, "associates") THEN Put(pd, "associates", AssociatesSkeleton(c))
            ELSE pd
        IfRecord(pd) ==
            IF IsDict(Get(pd, "associates")) THEN MergeAssociates(c, dl, pd, cd) ELSE pd
    IN EnsureInternships(
       MergeCredentials(
       EnsureNote(c,
       EnsureCareer(c, dl,
       MergeBachelors(c, dl, IfRecord(KeyPresent(pd0)), cd))), xd))

\* the document built from the three recorded results, lines 1130-1333
Merge(c, dl, pd0, cd, xd) ==
    FinalCheck(c,
    EnsureInternships(
    MergeCredentials(
    EnsureNote(c,
    EnsureCareer(c, dl,
    MergeBachelors(c, dl,
    MergeAssociates(c, dl, EnsureAssociates(c, pd0), cd), cd))), xd)))

----------------------------------------------------------------------------
(* Inputs: requests, provider answers, knowledge-store contents *)

MaxJobs == 2

RawCareers == {<<>>, <<"Nurse">>, <<"Mid-Career", " ", "Coach">>}

DegreeLevels == {"associate", "bachelor"}

\* request bodies: career and degreeLevel given, career missing, career blank without degreeLevel
Bodies ==
    {[career |-> c, degreeLevel |-> dl] : c \in RawCareers, dl \in DegreeLevels}
    \cup {[degreeLevel |-> "bachelor"], [career |-> <<" ">>]}

RegisteredNurse == Job(<<"Registered", " ", "Nurse">>, "45000-55000")

ChargeNurse == Job(<<"Charge", " ", "Nurse">>, "60000-75000")

Placeholder == Job(<<"Entry-Level", " ", "Position">>, "45000-55000")

JobTitlePlaceholder == Job(<<"Job", " ", "Title">>, "45000-55000")

MidCareerPlaceholder == Job(<<"Mid-Career", " ", "Position">>, "60000-75000")

Untitled == Dict([salary |-> S("45000-55000")])

\* a job whose salary the provider wrote as a JSON number
StaffNurse == Dict([title |-> S("Staff Nurse"), salary |-> Num(52000)])

\* all lists of at most n entries of A
RECURSIVE SeqsUpTo(_, _)
SeqsUpTo(A, n) ==
    IF n = 0 THEN {<<>>}
    ELSE LET shorter == SeqsUpTo(A, n - 1)
         IN shorter \cup {Append(l, a) : l \in {x \in shorter : Len(x) = n - 1}, a \in A}

EntryLists == SeqsUpTo({RegisteredNurse, Placeholder}, MaxJobs)

Outcomes(e, m) == Dict([careerOutcomes |-> Dict([entryLevel |-> List(e), midCareer |-> List(m)])])

\* an answer of the provider of Agent 2 with numeric salaries
NumericSalaries ==
    Dict([associates |-> Outcomes(<<StaffNurse>>, <<ChargeNurse>>),
          bachelors  |-> Outcomes(<<StaffNurse>>, <<ChargeNurse>>)])

\* request bodies of successive requests: spellings of one career, and the two degree levels
CacheBodies ==
    {[career |-> <<"Nurse">>, degreeLevel |-> "associate"],
     [career |-> <<" ", "nurse", ",">>, degreeLevel |-> "associate"],
     [career |-> <<"Nurse">>, degreeLevel |-> "bachelor"]}

\* what the provider of Agent 2 may answer (parsed JSON), or ProviderError
OutcomesAnswers ==
    {Dict([associates |-> Outcomes(e, <<ChargeNurse, MidCareerPlaceholder>>),
           bachelors  |-> Outcomes(e, <<ChargeNurse>>)]) : e \in EntryLists}
    \cup {Dict([associates |-> Outcomes(<<ChargeNurse, Placeholder, RegisteredNurse>>, <<MidCareerPlaceholder>>),
                bachelors  |-> Outcomes(<<ChargeNurse>>, <<MidCareerPlaceholder>>)]),
          Dict([associates |-> Outcomes(<<JobTitlePlaceholder, Untitled>>, <<ChargeNurse>>),
                bachelors  |-> Outcomes(<<Placeholder, Untitled>>, <<ChargeNurse>>)]),
          Dict([associates |-> Dict([careerOutcomes |-> Dict([entryLevel |-> List(<<RegisteredNurse>>)])])]),
          Dict([associates |-> None, bachelors |-> Outcomes(<<RegisteredNurse>>, <<ChargeNurse>>)]),
          Dict([associates |-> Outcomes(<<S("Registered Nurse")>>, <<ChargeNurse>>)]),
          List(<<>>),
          ProviderError}

NursingCourses == List(<<S("NUR1025 - Fundamentals"), Str(<<"enc1101", " - ", "Composition">>),
                         S("c3"), S("c4"), S("c5"), S("c6")>>)

\* what the provider of Agent 1 may answer (parsed JSON), or ProviderError
StructureAnswers ==
    {Dict([associates |-> Dict([programs |-> List(<<S("Nursing")>>), duration |-> S("2 years"),
                                keyCourses |-> NursingCourses]),
           note |-> S("A personal note")]),
     Dict([associates |-> Dict([programs |-> List(<<S("Nursing")>>),
                                careerOutcomes |-> Outcomes(<<Placeholder>>, <<>>).d.careerOutcomes,
                                financial |-> Dict([tuitionPerYear |-> S("3000")])]),
           bachelors  |-> Dict([universities |-> List(<<S("FIU")>>), keyCourses |-> List(<<>>),
                                financial |-> S("varies")]),
           certifications |-> List(<<S("CPR"), Dict([name |-> S("BLS")])>>),
           exams |-> List(<<S(" "), Dict([relevance |-> S("high")])>>),
           advisorNote |-> Str(<<>>)]),
     Dict([associates |-> S("see advisor"), bachelors |-> EmptyDict,
           certifications |-> List(<<>>), exams |-> List(<<Dict([name |-> S("NCLEX")])>>),
           note |-> Str(<<>>), career |-> S("Doctor"), degreeLevel |-> S("masters"),
           clubs |-> List(<<S("Chess Club")>>)]),
     List(<<>>),
     ProviderError}

\* an item of the MDCPrograms table, or None when no program matches the career
MdcPrograms ==
    {None,
     Dict([programName |-> S("Nursing"), degreeType |-> S("BS"),
           courses |-> List(<<Dict([code |-> Str(<<"enc1101">>), name |-> S("Composition")]),
                              Dict([name |-> S("Clinical Practice")])>>)])}

NursingCertificate ==
    Dict([certificateName |-> Str(<<"Nurse", " ", "Assistant", " ", "Certificate">>), description |-> S("Patient care")])

WeldingCertificate ==
    Dict([certificateName |-> S("Welding Certificate"), description |-> S("Metal work")])

NursingClub ==
    Dict([clubName |-> S("Pre-Health Club"), notes |-> Str(<<>>), suggestedMajors |-> List(<<Str(<<"nurse">>)>>)])

\* the scan results of the MDCCertifications / MDCClubs tables, None when the scan raises
CertScans == {None, List(<<NursingCertificate, WeldingCertificate>>)}

ClubScans == {List(<<>>), List(<<NursingClub>>)}

ProviderMatches ==
    Dict([certifications |-> List(<<Dict([name |-> Str(<<" ", "BLS">>), relevance |-> S("high")]),
                                    Dict([name |-> S("Drone Pilot License"), relevance |-> S("medium")]),
                                    Dict([name |-> S("Welding Certificate"), relevance |-> S("low")]),
                                    Dict([name |-> S("CPR"), relevance |-> S("high")])>>),
          clubs |-> List(<<Dict([name |-> S("Pre-Health Club"), relevance |-> S("high")])>>)])

\* what the provider of Agent 4 may answer: ProviderError, or JSON parsed directly
\* (direct) or found in the text by the regular expression
CredentialsAnswers ==
    {ProviderError,
     [ty |-> "parsed", direct |-> TRUE, matches |-> ProviderMatches],
     [ty |-> "parsed", direct |-> FALSE, matches |-> ProviderMatches],
     [ty |-> "parsed", direct |-> TRUE, matches |-> Dict([certifications |-> S("none")])]}

----------------------------------------------------------------------------
(* lambda_handler *)

Tasks == {"structure", "outcomes", "credentials"}

\* future.result(timeout=...) of lines 1081, 1104 and 1123, in seconds
StructureTimeout == 30

OutcomesTimeout == 25

CredentialsTimeout == 20

Timeout(t) == CASE t = "structure" -> StructureTimeout
                [] t = "outcomes" -> OutcomesTimeout
                [] t = "credentials" -> CredentialsTimeout

\* urlopen(req, timeout=...) of the provider request of each agent, lines 482, 724, 915
StructureCallTimeout == 25

OutcomesCallTimeout == 20

CredentialsCallTimeout == 20

CallTimeout(t) == CASE t = "structure" -> StructureCallTimeout
                    [] t = "outcomes" -> OutcomesCallTimeout
                    [] t = "credentials" -> CredentialsCallTimeout

\* a normalisation that keeps the letter case
RECURSIVE Normalize_KeepsCase(_)
Normalize_KeepsCase(s) ==
    IF s = <<>> THEN <<>>
    ELSE IF Head(s) = " " THEN <<"-">> \o Normalize_KeepsCase(Tail(s))
    ELSE IF Head(s) = "," THEN Normalize_KeepsCase(Tail(s))
    ELSE <<Head(s)>> \o Normalize_KeepsCase(Tail(s))

\* career.lower().replace(' ', '-').replace(',', '')
RECURSIVE Normalize(_)
Normalize(s) ==
    IF s = <<>> THEN <<>>
    ELSE IF Head(s) = " " THEN <<"-">> \o Normalize(Tail(s))
    ELSE IF Head(s) = "," THEN Normalize(Tail(s))
    ELSE <<LowerAtom(Head(s))>> \o Normalize(Tail(s))

\* line 1039
CareerId(c, dl) == Normalize(c) \o <<"-", dl>>

\* lines 1084-1101: pathway_data when Agent 1 timed out
PathwayTimeoutFallback(c, dl) ==
    Dict([career |-> Str(c), degreeLevel |-> Str(<<dl>>),
          associates |-> AssociatesPathway(c),
          bachelors |-> IF dl = "bachelor" THEN BachelorsSkeleton ELSE None,
          certifications |-> List(<<>>), exams |-> List(<<>>), internships |-> List(<<>>),
          note |-> DefaultNote(c)])

\* lines 1126-1128: certifications_data when Agent 4 timed out
CertificationsTimeoutFallback == Dict([certifications |-> List(<<>>)])

\* what get_item returns for a value that put_item stored: the table resource stores an
\* int as a DynamoDB number and reads every number back as decimal.Decimal
RECURSIVE FromStore(_)
FromStore(v) ==
    CASE v.ty = "num"  -> Dec(v.n)
      [] v.ty = "list" -> List([i \in 1..Len(v.l) |-> FromStore(v.l[i])])
      [] v.ty = "dict" -> Dict([k \in DOMAIN v.d |-> FromStore(v.d[k])])
      [] OTHER -> v

\* json.dumps(v) raises TypeError: a Decimal is not JSON serializable
RECURSIVE DumpsRaises(_)
DumpsRaises(v) ==
    CASE v.ty = "dec"  -> TRUE
      [] v.ty = "list" -> \E i \in 1..Len(v.l) : DumpsRaises(v.l[i])
      [] v.ty = "dict" -> \E k \in DOMAIN v.d : DumpsRaises(v.d[k])
      [] OTHER -> FALSE

\* the item written at lines 1337-1346
Item(id, c, dl, doc, t) ==
    [careerId |-> id, career |-> c, degreeLevel |-> dl, pathway |-> doc, createdAt |-> t, updatedAt |-> t]

\* response['Item'] of get_item for a stored item
ItemFromStore(item) == [item EXCEPT !.pathway = FromStore(item.pathway)]

\* body.get('career', '')
BodyCareer(body) == IF "career" \in DOMAIN body THEN body.career ELSE <<>>

\* body.get('degreeLevel', 'associate'); the levels of the model have no blanks to strip
BodyDegreeLevel(body) == IF "degreeLevel" \in DOMAIN body THEN body.degreeLevel ELSE "associate"

\* the keys of the CareerPathways table that the requests can name
Keys == {CareerId(Strip(BodyCareer(body)), BodyDegreeLevel(body)) :
            body \in {b \in Bodies \cup CacheBodies : Strip(BodyCareer(b)) # <<>>}}

\* get_item finds no 'Item' under the key
NoItem == [absent |-> TRUE]

\* get_item has not been called
NotRead == [read |-> FALSE]

\* get_item raised
ReadError == [error |-> TRUE]

EmptyTable == [k \in Keys |-> NoItem]

\* the result of Agent 4 when it finds nothing
NoCredentials == Dict([certifications |-> List(<<>>), clubs |-> List(<<>>)])

\* a table that earlier requests left behind: the document of a request whose agents all
\* failed, and the document of a request whose outcomes agent answered NumericSalaries
StoredTable ==
    [k \in Keys |->
        IF k = CareerId(<<"Nurse">>, "associate")
        THEN Item(k, <<"Nurse">>, "associate",
                  Merge(<<"Nurse">>, "associate", StructureFallback(<<"Nurse">>, "associate"),
                        OutcomesFallback(<<"Nurse">>), NoCredentials), 0)
        ELSE IF k = CareerId(<<"Mid-Career", " ", "Coach">>, "bachelor")
        THEN Item(k, <<"Mid-Career", " ", "Coach">>, "bachelor",
                  Merge(<<"Mid-Career", " ", "Coach">>, "bachelor",
                        StructureFallback(<<"Mid-Career", " ", "Coach">>, "bachelor"),
                        NumericSalaries, NoCredentials), 0)
        ELSE NoItem]

NoResponse == [statusCode |-> 0]

\* the second invocation has not begun
NoRival == [pc |-> "start"]

\* no agent function has been called directly
NoProbe == [fn |-> "none"]

IdleFutures == [t \in Tasks |-> [st |-> "idle", val |-> None]]

Init ==
    /\ pc = "start"
    /\ event = [career |-> <<>>, degreeLevel |-> "associate"]
    /\ career = <<>>
    /\ degree_level = "associate"
    /\ career_id = <<>>
    /\ table = StoredTable
    /\ fut = IdleFutures
    /\ now = 0
    /\ waitStart = 0
    /\ late = [t \in Tasks |-> FALSE]
    /\ recorded = [t \in Tasks |-> "none"]
    /\ pathway_data = None
    /\ career_data = None
    /\ certifications_data = None
    /\ response = NoResponse
    /\ writes = 0
    /\ get_result = NotRead
    /\ write_error = FALSE
    /\ served = <<>>
    /\ rival = NoRival
    /\ probe = NoProbe

\* a handler that reads the cache before it validates the career
Request_ReadsFirst(body) ==
    /\ pc = "start"
    /\ event' = body
    /\ career' = Strip(BodyCareer(body))
    /\ degree_level' = BodyDegreeLevel(body)
    /\ IF Strip(BodyCareer(body)) = <<>>
       THEN /\ response' = [statusCode |-> 400, error |-> "Career field is required"]
            /\ pc' = "done"
            /\ get_result' = NoItem
            /\ UNCHANGED career_id
       ELSE /\ career_id' = CareerId(Strip(BodyCareer(body)), BodyDegreeLevel(body))
            /\ pc' = "get_item"
            /\ UNCHANGED <<response, get_result>>
    /\ UNCHANGED <<write_error, served, rival, probe,
                   table, fut, now, waitStart, late, recorded, pathway_data, career_data,
                   certifications_data, writes>>

\* lines 1013-1039: parse the request, reject an empty career, build the key
Request(body) ==
    /\ pc = "start"
    /\ event' = body
    /\ career' = Strip(BodyCareer(body))
    /\ degree_level' = BodyDegreeLevel(body)
    /\ IF Strip(BodyCareer(body)) = <<>>
       THEN /\ response' = [statusCode |-> 400, error |-> "Career field is required"]
            /\ pc' = "done"
            /\ UNCHANGED career_id
       ELSE /\ career_id' = CareerId(Strip(BodyCareer(body)), BodyDegreeLevel(body))
            /\ pc' = "get_item"
            /\ UNCHANGED response
    /\ UNCHANGED <<get_result, write_error, served, rival, probe,
                   table, fut, now, waitStart, late, recorded, pathway_data, career_data,
                   certifications_data, writes>>

\* lines 1043-1064: get_item finds the item and the stored pathway is returned
GetItemHit ==
    /\ pc = "get_item"
    /\ table[career_id] # NoItem
    /\ ~DumpsRaises(ItemFromStore(table[career_id]).pathway)
    /\ get_result' = ItemFromStore(table[career_id])
    /\ response' = [statusCode |-> 200, pathway |-> ItemFromStore(table[career_id]).pathway,
                    cached |-> TRUE, career |-> career]
    /\ pc' = "done"
    /\ UNCHANGED <<write_error, served, rival, probe,
                   event, career, degree_level, career_id, table, fut, now, waitStart, late,
                   recorded, pathway_data, career_data, certifications_data, writes>>

\* lines 1043-1066: get_item finds the item, json.dumps raises TypeError on the pathway
\* read from the table, the except clause of line 1065 prints the error
GetItemHitDumpsRaises ==
    /\ pc = "get_item"
    /\ table[career_id] # NoItem
    /\ DumpsRaises(ItemFromStore(table[career_id]).pathway)
    /\ get_result' = ItemFromStore(table[career_id])
    /\ pc' = "submit"
    /\ UNCHANGED <<write_error, served, rival, probe,
                   event, career, degree_level, career_id, table, fut, now, waitStart, late,
                   recorded, pathway_data, career_data, certifications_data, response, writes>>

\* line 1049: no 'Item' in the response of get_item
GetItemMiss ==
    /\ pc = "get_item"
    /\ table[career_id] = NoItem
    /\ get_result' = NoItem
    /\ pc' = "submit"
    /\ UNCHANGED <<write_error, served, rival, probe,
                   event, career, degree_level, career_id, table, fut, now, waitStart, late,
                   recorded, pathway_data, career_data, certifications_data, response, writes>>

\* lines 1065-1066: get_item raises, the error is printed
GetItemRaises ==
    /\ pc = "get_item"
    /\ get_result' = ReadError
    /\ pc' = "submit"
    /\ UNCHANGED <<write_error, served, rival, probe,
                   event, career, degree_level, career_id, table, fut, now, waitStart, late,
                   recorded, pathway_data, career_data, certifications_data, response, writes>>

\* lines 1073-1077: the three agents are submitted to the pool and start running
Submit ==
    /\ pc = "submit"
    /\ fut' = [t \in Tasks |-> [st |-> "running", val |-> None]]
    /\ now' = 0
    /\ waitStart' = 0
    /\ pc' = "wait_structure"
    /\ UNCHANGED <<get_result, write_error, served, rival, probe,
                   event, career, degree_level, career_id, table, late, recorded, pathway_data,
                   career_data, certifications_data, response, writes>>

\* a running agent returns val
Return(t, val) ==
    /\ fut[t].st = "running"
    /\ fut' = [fut EXCEPT ![t] = [st |-> "done", val |-> val]]
    /\ late' = [late EXCEPT ![t] = now > Timeout(t)]
    /\ UNCHANGED <<get_result, write_error, served, rival, probe,
                   pc, event, career, degree_level, career_id, table, now, waitStart, recorded,
                   pathway_data, career_data, certifications_data, response, writes>>

StructureReturns ==
    \E answer \in StructureAnswers, mdc_data \in MdcPrograms :
        Return("structure", generate_pathway_structure(career, degree_level, answer, mdc_data))

OutcomesReturns ==
    \E answer \in OutcomesAnswers :
        Return("outcomes", generate_career_outcomes(career, degree_level, answer))

CredentialsReturns ==
    \E certScan \in CertScans, clubScan \in ClubScans, answer \in CredentialsAnswers, keyOk \in BOOLEAN :
        Return("credentials", match_certifications(career, degree_level, certScan, clubScan, answer, keyOk))

\* the task the handler is waiting for in a future.result(timeout) call
Awaited ==
    CASE pc = "wait_structure" -> "structure"
      [] pc = "wait_outcomes" -> "outcomes"
      [] pc = "wait_credentials" -> "credentials"
      [] OTHER -> "none"

\* the handler is blocked in future.result(timeout) and time passes until the deadline of
\* that call; an agent that returns in between is seen as one that returns when the call began
Tick ==
    /\ Awaited # "none"
    /\ fut[Awaited].st = "running"
    /\ now - waitStart < Timeout(Awaited)
    /\ now' = waitStart + Timeout(Awaited)
    /\ UNCHANGED <<get_result, write_error, served, rival, probe,
                   pc, event, career, degree_level, career_id, table, fut, waitStart, late,
                   recorded, pathway_data, career_data, certifications_data, response, writes>>

\* line 1081: pathway_future.result(timeout=30) returns the agent's value
StructureResult ==
    /\ pc = "wait_structure"
    /\ fut["structure"].st = "done"
    /\ pathway_data' = fut["structure"].val
    /\ recorded' = [recorded EXCEPT !["structure"] = "result"]
    /\ waitStart' = now
    /\ pc' = "wait_outcomes"
    /\ UNCHANGED <<get_result, write_error, served, rival, probe,
                   event, career, degree_level, career_id, table, fut, now, late, career_data,
                   certifications_data, response, writes>>

\* lines 1082-1101: pathway_future.result(timeout=30) raises TimeoutError
StructureTimesOut ==
    /\ pc = "wait_structure"
    /\ fut["structure"].st = "running"
    /\ now - waitStart >= StructureTimeout
    /\ pathway_data' = PathwayTimeoutFallback(career, degree_level)
    /\ recorded' = [recorded EXCEPT !["structure"] = "timeout"]
    /\ waitStart' = now
    /\ pc' = "wait_outcomes"
    /\ UNCHANGED <<get_result, write_error, served, rival, probe,
                   event, career, degree_level, career_id, table, fut, now, late, career_data,
                   certifications_data, response, writes>>

\* line 1104: career_future.result(timeout=25) returns the agent's value
OutcomesResult ==
    /\ pc = "wait_outcomes"
    /\ fut["outcomes"].st = "done"
    /\ career_data' = fut["outcomes"].val
    /\ recorded' = [recorded EXCEPT !["outcomes"] = "result"]
    /\ waitStart' = now
    /\ pc' = "wait_credentials"
    /\ UNCHANGED <<get_result, write_error, served, rival, probe,
                   event, career, degree_level, career_id, table, fut, now, late, pathway_data,
                   certifications_data, response, writes>>

\* lines 1105-1120: career_future.result(timeout=25) raises TimeoutError
OutcomesTimesOut ==
    /\ pc = "wait_outcomes"
    /\ fut["outcomes"].st = "running"
    /\ now - waitStart >= OutcomesTimeout
    /\ career_data' = OutcomesFallback(career)
    /\ recorded' = [recorded EXCEPT !["outcomes"] = "timeout"]
    /\ waitStart' = now
    /\ pc' = "wait_credentials"
    /\ UNCHANGED <<get_result, write_error, served, rival, probe,
                   event, career, degree_level, career_id, table, fut, now, late, pathway_data,
                   certifications_data, response, writes>>

\* line 1123: certifications_future.result(timeout=20) returns the agent's value
CredentialsResult ==
    /\ pc = "wait_credentials"
    /\ fut["credentials"].st = "done"
    /\ certifications_data' = fut["credentials"].val
    /\ recorded' = [recorded EXCEPT !["credentials"] = "result"]
    /\ pc' = "shutdown"
    /\ UNCHANGED <<get_result, write_error, served, rival, probe,
                   event, career, degree_level, career_id, table, fut, now, waitStart, late,
                   pathway_data, career_data, response, writes>>

\* lines 1124-1128: certifications_future.result(timeout=20) raises TimeoutError
CredentialsTimesOut ==
    /\ pc = "wait_credentials"
    /\ fut["credentials"].st = "running"
    /\ now - waitStart >= CredentialsTimeout
    /\ certifications_data' = CertificationsTimeoutFallback
    /\ recorded' = [recorded EXCEPT !["credentials"] = "timeout"]
    /\ pc' = "shutdown"
    /\ UNCHANGED <<get_result, write_error, served, rival, probe,
                   event, career, degree_level, career_id, table, fut, now, waitStart, late,
                   pathway_data, career_data, response, writes>>

\* a handler that reads the credentials future again once the pool has shut down
ExecutorShutdown_Collects ==
    /\ pc = "shutdown"
    /\ \A t \in Tasks : fut[t].st = "done"
    /\ certifications_data' = fut["credentials"].val
    /\ pc' = "merge"
    /\ UNCHANGED <<get_result, write_error, served, rival, probe,
                   event, career, degree_level, career_id, table, fut, now, waitStart, late,
                   recorded, pathway_data, career_data, response, writes>>

\* the end of the `with ThreadPoolExecutor(...)` block of line 1073: the executor's
\* __exit__ calls shutdown(wait=True), which returns when no agent is running
ExecutorShutdown ==
    /\ pc = "shutdown"
    /\ \A t \in Tasks : fut[t].st = "done"
    /\ pc' = "merge"
    /\ UNCHANGED <<get_result, write_error, served, rival, probe,
                   event, career, degree_level, career_id, table, fut, now, waitStart, late,
                   recorded, pathway_data, career_data, certifications_data, response, writes>>

\* a merge that drops the outcomes of a task that finished after its deadline had passed
MergeResults_ByCompletion ==
    /\ pc = "merge"
    /\ IF MergeRaises(career, degree_level, pathway_data, career_data, certifications_data)
       THEN /\ response' = [statusCode |-> 500, error |-> "str(e)"]
            /\ pc' = "done"
            /\ UNCHANGED pathway_data
       ELSE /\ pathway_data' = Merge(career, degree_level, pathway_data,
                                     IF \E t \in Tasks : late[t] THEN OutcomesFallback(career) ELSE career_data,
                                     certifications_data)
            /\ pc' = "put_item"
            /\ UNCHANGED response
    /\ UNCHANGED <<get_result, write_error, served, rival, probe,
                   event, career, degree_level, career_id, table, fut, now, waitStart, late,
                   recorded, career_data, certifications_data, writes>>

\* lines 1130-1333, and lines 1366-1379 when a statement of the merge raises
MergeResults ==
    /\ pc = "merge"
    /\ IF MergeRaises(career, degree_level, pathway_data, career_data, certifications_data)
       THEN /\ response' = [statusCode |-> 500, error |-> "str(e)"]
            /\ pc' = "done"
            /\ UNCHANGED pathway_data
       ELSE /\ pathway_data' = Merge(career, degree_level, pathway_data, career_data, certifications_data)
            /\ pc' = "put_item"
            /\ UNCHANGED response
    /\ UNCHANGED <<get_result, write_error, served, rival, probe,
                   event, career, degree_level, career_id, table, fut, now, waitStart, late,
                   recorded, career_data, certifications_data, writes>>

\* a write that updates the stored item: the associates section of a stored item is kept
PutItem_KeepsStoredSection ==
    /\ pc = "put_item"
    /\ table' = [table EXCEPT ![career_id] =
                    Item(career_id, career, degree_level,
                         IF table[career_id] = NoItem THEN pathway_data
                         ELSE Put(pathway_data, "associates",
                                  Get(table[career_id].pathway, "associates")),
                         now)]
    /\ writes' = writes + 1
    /\ pc' = "respond"
    /\ UNCHANGED <<get_result, write_error, served, rival, probe,
                   event, career, degree_level, career_id, fut, now, waitStart, late, recorded,
                   pathway_data, career_data, certifications_data, response>>

\* lines 1336-1346: the document is stored under the key
PutItem ==
    /\ pc = "put_item"
    /\ table' = [table EXCEPT ![career_id] = Item(career_id, career, degree_level, pathway_data, now)]
    /\ writes' = writes + 1
    /\ pc' = "respond"
    /\ UNCHANGED <<get_result, write_error, served, rival, probe,
                   event, career, degree_level, career_id, fut, now, waitStart, late, recorded,
                   pathway_data, career_data, certifications_data, response>>

\* a handler whose put_item is not guarded: the outer handler answers 500
PutItemRaises_Propagates ==
    /\ pc = "put_item"
    /\ writes' = writes + 1
    /\ write_error' = TRUE
    /\ response' = [statusCode |-> 500, error |-> "str(e)"]
    /\ pc' = "done"
    /\ UNCHANGED <<get_result, served, rival, probe,
                   event, career, degree_level, career_id, table, fut, now, waitStart, late,
                   recorded, pathway_data, career_data, certifications_data>>

\* lines 1347-1348: put_item raises, the error is printed
PutItemRaises ==
    /\ pc = "put_item"
    /\ writes' = writes + 1
    /\ write_error' = TRUE
    /\ pc' = "respond"
    /\ UNCHANGED <<get_result, served, rival, probe,
                   event, career, degree_level, career_id, table, fut, now, waitStart, late,
                   recorded, pathway_data, career_data, certifications_data, response>>

\* lines 1350-1364
Respond ==
    /\ pc = "respond"
    /\ response' = [statusCode |-> 200, pathway |-> pathway_data, cached |-> FALSE, career |-> career]
    /\ pc' = "done"
    /\ UNCHANGED <<get_result, write_error, served, rival, probe,
                   event, career, degree_level, career_id, table, fut, now, waitStart, late,
                   recorded, pathway_data, career_data, certifications_data, writes>>

Next ==
    \/ \E body \in Bodies : Request(body)
    \/ GetItemHit
    \/ GetItemHitDumpsRaises
    \/ GetItemMiss
    \/ GetItemRaises
    \/ Submit
    \/ StructureReturns
    \/ OutcomesReturns
    \/ CredentialsReturns
    \/ Tick
    \/ StructureResult
    \/ StructureTimesOut
    \/ OutcomesResult
    \/ OutcomesTimesOut
    \/ CredentialsResult
    \/ CredentialsTimesOut
    \/ ExecutorShutdown
    \/ MergeResults
    \/ PutItem
    \/ PutItemRaises
    \/ Respond

Spec == Init /\ [][Next]_vars

----------------------------------------------------------------------------
(* Successive requests to lambda_handler over one CareerPathways table *)

\* the number of requests handled one after the other
MaxRequests == 2

InitCache ==
    /\ pc = "start"
    /\ event = [career |-> <<>>, degreeLevel |-> "associate"]
    /\ career = <<>>
    /\ degree_level = "associate"
    /\ career_id = <<>>
    /\ table = EmptyTable
    /\ fut = IdleFutures
    /\ now = 0
    /\ waitStart = 0
    /\ late = [t \in Tasks |-> FALSE]
    /\ recorded = [t \in Tasks |-> "none"]
    /\ pathway_data = None
    /\ career_data = None
    /\ certifications_data = None
    /\ response = NoResponse
    /\ writes = 0
    /\ get_result = NotRead
    /\ write_error = FALSE
    /\ served = <<>>
    /\ rival = NoRival
    /\ probe = NoProbe

CacheRequest == \E body \in CacheBodies : Request(body)

\* Agent 1 with a failing provider
CacheStructureReturns ==
    Return("structure", generate_pathway_structure(career, degree_level, ProviderError, None))

\* Agent 2 with a failing provider, or with one that answers NumericSalaries
CacheOutcomesReturns ==
    \E answer \in {ProviderError, NumericSalaries} :
        Return("outcomes", generate_career_outcomes(career, degree_level, answer))

\* Agent 4 with failing scans and a failing provider
CacheCredentialsReturns ==
    Return("credentials",
           match_certifications(career, degree_level, None, List(<<>>), ProviderError, TRUE))

\* what is remembered of a request that has returned
Served ==
    [event |-> event, career_id |-> career_id, response |-> response, get_result |-> get_result,
     stored |-> (writes = 1 /\ ~write_error)]

\* the handler has returned and is invoked again; the table is all that is kept
NextRequest ==
    /\ pc = "done"
    /\ Len(served) < MaxRequests - 1
    /\ served' = Append(served, Served)
    /\ pc' = "start"
    /\ event' = [career |-> <<>>, degreeLevel |-> "associate"]
    /\ career' = <<>>
    /\ degree_level' = "associate"
    /\ career_id' = <<>>
    /\ fut' = IdleFutures
    /\ now' = 0
    /\ waitStart' = 0
    /\ late' = [t \in Tasks |-> FALSE]
    /\ recorded' = [t \in Tasks |-> "none"]
    /\ pathway_data' = None
    /\ career_data' = None
    /\ certifications_data' = None
    /\ response' = NoResponse
    /\ writes' = 0
    /\ get_result' = NotRead
    /\ write_error' = FALSE
    /\ UNCHANGED <<table, rival, probe>>

NextCache ==
    \/ CacheRequest
    \/ GetItemHit
    \/ GetItemHitDumpsRaises
    \/ GetItemMiss
    \/ GetItemRaises
    \/ Submit
    \/ CacheStructureReturns
    \/ CacheOutcomesReturns
    \/ CacheCredentialsReturns
    \/ Tick
    \/ StructureResult
    \/ StructureTimesOut
    \/ OutcomesResult
    \/ OutcomesTimesOut
    \/ CredentialsResult
    \/ CredentialsTimesOut
    \/ ExecutorShutdown
    \/ MergeResults
    \/ PutItem
    \/ PutItemRaises
    \/ Respond
    \/ NextRequest

SpecCache == InitCache /\ [][NextCache]_vars

----------------------------------------------------------------------------
(* The cache key of successive requests: lines 1020-1039 alone *)

\* spellings of three careers
KeyCareers ==
    {<<"Nurse">>, <<"nurse">>, <<" ", "nurse", ",">>, <<"Nurse", ",", " ">>,
     <<"Mid-Career", " ", "Coach">>, <<"mid-career", " ", ",", "coach">>,
     <<"Mid-Career", ",", " ", "Coach", " ">>, <<"Coach", " ", "Nurse">>}

KeyBodies ==
    {[career |-> c, degreeLevel |-> dl] : c \in KeyCareers, dl \in DegreeLevels}
    \cup {[career |-> <<"nurse">>]}

KeyRequest == \E body \in KeyBodies : Request(body)

\* the key of the request is built; what the handler does with it is left out, and the
\* handler is invoked again
KeyBuilt ==
    /\ pc = "get_item"
    /\ Len(served) < MaxRequests - 1
    /\ served' = Append(served, Served)
    /\ pc' = "start"
    /\ event' = [career |-> <<>>, degreeLevel |-> "associate"]
    /\ career' = <<>>
    /\ degree_level' = "associate"
    /\ career_id' = <<>>
    /\ UNCHANGED <<table, fut, now, waitStart, late, recorded, pathway_data, career_data,
                   certifications_data, response, writes, get_result, write_error, rival, probe>>

NextKey ==
    \/ KeyRequest
    \/ KeyBuilt

SpecKey == InitCache /\ [][NextKey]_vars

----------------------------------------------------------------------------
(* Two concurrent invocations of lambda_handler for the same request *)

\* lines 1042-1066 in the second invocation: it reads the key of the request
RivalGetItem ==
    /\ rival.pc = "start"
    /\ pc \notin {"start", "done"}
    /\ rival' = IF table[career_id] = NoItem
                   \/ DumpsRaises(ItemFromStore(table[career_id]).pathway)
                THEN [pc |-> "generate"]
                ELSE [pc |-> "done", cached |-> TRUE,
                      doc |-> ItemFromStore(table[career_id]).pathway]
    /\ UNCHANGED <<pc, event, career, degree_level, career_id, table, fut, now, waitStart,
                   late, recorded, pathway_data, career_data, certifications_data, response,
                   writes, get_result, write_error, served, probe>>

\* lines 1073-1333 in the second invocation: its own three tasks and its merge, with a
\* failing structure provider, failing scans, and an outcomes provider that fails or
\* answers NumericSalaries
RivalGenerate ==
    /\ rival.pc = "generate"
    /\ \E answer \in {ProviderError, NumericSalaries} :
          rival' = [pc |-> "put_item",
                    doc |-> Merge(career, degree_level,
                                  generate_pathway_structure(career, degree_level, ProviderError, None),
                                  generate_career_outcomes(career, degree_level, answer),
                                  match_certifications(career, degree_level, None, List(<<>>),
                                                       ProviderError, TRUE))]
    /\ UNCHANGED <<pc, event, career, degree_level, career_id, table, fut, now, waitStart,
                   late, recorded, pathway_data, career_data, certifications_data, response,
                   writes, get_result, write_error, served, probe>>

\* lines 1336-1346 in the second invocation; `after` tells whether the first invocation
\* had already written the key
RivalPutItem ==
    /\ rival.pc = "put_item"
    /\ table' = [table EXCEPT ![career_id] = Item(career_id, career, degree_level, rival.doc, now)]
    /\ rival' = [pc |-> "done", cached |-> FALSE, doc |-> rival.doc,
                 after |-> (writes = 1 /\ ~write_error)]
    /\ UNCHANGED <<pc, event, career, degree_level, career_id, fut, now, waitStart,
                   late, recorded, pathway_data, career_data, certifications_data, response,
                   writes, get_result, write_error, served, probe>>

NextRace ==
    \/ CacheRequest
    \/ GetItemHit
    \/ GetItemHitDumpsRaises
    \/ GetItemMiss
    \/ GetItemRaises
    \/ Submit
    \/ CacheStructureReturns
    \/ CacheOutcomesReturns
    \/ CacheCredentialsReturns
    \/ Tick
    \/ StructureResult
    \/ StructureTimesOut
    \/ OutcomesResult
    \/ OutcomesTimesOut
    \/ CredentialsResult
    \/ CredentialsTimesOut
    \/ ExecutorShutdown
    \/ MergeResults
    \/ PutItem
    \/ PutItemRaises
    \/ Respond
    \/ RivalGetItem
    \/ RivalGenerate
    \/ RivalPutItem

SpecRace == InitCache /\ [][NextRace]_vars

----------------------------------------------------------------------------
(* Direct calls of the agent functions on bounded inputs *)

\* the number of courses of the largest MDC program
MaxCourses == 6

\* an item of the MDCPrograms table with MaxCourses courses
LargeProgram ==
    Dict([programName |-> S("Nursing"), degreeType |-> S("AS"),
          courses |-> List([i \in 1..MaxCourses |->
                              Dict([code |-> Str(<<"nur1025">>),
                                    name |-> Str(<<"Clinical", " ", ToString(i)>>)])])])

\* an item of the MDCPrograms table without courses
EmptyProgram == Dict([programName |-> S("Nursing"), courses |-> List(<<>>)])

ProbePrograms == MdcPrograms \cup {LargeProgram, EmptyProgram}

\* recommended course lists: some, none or all of whose codes MDC offers
ProbeCourses ==
    {List(<<Str(<<"enc1101", " - ", "Composition">>), S("c3")>>),
     List(<<S("c3"), S("c4")>>),
     List(<<Dict([code |-> Str(<<"enc1101">>)]), Dict([code |-> S("xyz")])>>),
     NursingCourses,
     List(<<>>)}

ProbeCareers == {<<"Nurse">>, <<"Mid-Career", " ", "Coach">>}

\* validate_courses_against_mdc(courses, mdc_data) returns
CallValidateCourses ==
    /\ \E courses \in ProbeCourses, mdc_data \in ProbePrograms :
          /\ ~ValidateRaises(courses, mdc_data)
          /\ probe' = [fn |-> "validate_courses_against_mdc", courses |-> courses,
                       mdc_data |-> mdc_data,
                       out |-> validate_courses_against_mdc(courses, mdc_data)]
    /\ UNCHANGED <<pc, event, career, degree_level, career_id, table, fut, now, waitStart,
                   late, recorded, pathway_data, career_data, certifications_data, response,
                   writes, get_result, write_error, served, rival>>

\* generate_pathway_structure(career, degree_level) returns; answer is what the provider
\* answered and mdc_data what get_mdc_context_for_career found
CallGeneratePathwayStructure ==
    /\ \E c \in ProbeCareers, dl \in DegreeLevels, answer \in StructureAnswers,
          mdc_data \in ProbePrograms :
          probe' = [fn |-> "generate_pathway_structure", career |-> c, degree_level |-> dl,
                    answer |-> answer, mdc_data |-> mdc_data,
                    out |-> generate_pathway_structure(c, dl, answer, mdc_data)]
    /\ UNCHANGED <<pc, event, career, degree_level, career_id, table, fut, now, waitStart,
                   late, recorded, pathway_data, career_data, certifications_data, response,
                   writes, get_result, write_error, served, rival>>

\* match_certifications(career, degree_level) returns; certScan and clubScan are what the
\* table scans returned and answer what the provider answered
CallMatchCertifications ==
    /\ \E c \in ProbeCareers, dl \in DegreeLevels, certScan \in CertScans, clubScan \in ClubScans,
          answer \in CredentialsAnswers, keyOk \in BOOLEAN :
          probe' = [fn |-> "match_certifications", career |-> c, degree_level |-> dl,
                    certScan |-> certScan, clubScan |-> clubScan, answer |-> answer,
                    out |-> match_certifications(c, dl, certScan, clubScan, answer, keyOk)]
    /\ UNCHANGED <<pc, event, career, degree_level, career_id, table, fut, now, waitStart,
                   late, recorded, pathway_data, career_data, certifications_data, response,
                   writes, get_result, write_error, served, rival>>

NextAgents ==
    \/ CallValidateCourses
    \/ CallGeneratePathwayStructure
    \/ CallMatchCertifications

SpecAgents == InitCache /\ [][NextAgents]_vars

----------------------------------------------------------------------------
(* Properties *)

\* the merge of this request has produced its document, held in pathway_data
Merged ==
    \/ pc \in {"put_item", "respond"}
    \/ pc = "done" /\ response.statusCode = 200 /\ ~response.cached

\* the handler took the timeout branch for every agent
AllTimedOut == \A t \in Tasks : recorded[t] = "timeout"

\* the section is present in the document as a record
HasRecord(doc, section) == Has(doc, section) /\ IsDict(Get(doc, section))

\* C1: whenever the merge has produced a document, whatever the three agents returned and
\* whichever of them timed out, the document has an `associates` key holding a non-empty record.
C1_AssociatesAlwaysRecord ==
    Merged => /\ Has(pathway_data, "associates")
              /\ IsDict(Get(pathway_data, "associates"))
              /\ DOMAIN Get(pathway_data, "associates").d # {}

\* all three agents timed out and the document was still produced
C1_Witness == Merged /\ AllTimedOut /\ HasRecord(pathway_data, "associates")

\* an entry of certifications / exams that carries a non-empty name
NamedEntry(entry) ==
    \/ IsStr(entry) /\ Strip(entry.s) # <<>>
    \/ IsDict(entry) /\ Truthy(Get(entry, "name"))

\* C2: in the document of a request, `certifications` and `exams` are each either absent or
\* a list with at least one entry that has a non-empty name; never present and empty.
C2_NoEmptyCredentialLists ==
    Merged => \A key \in {"certifications", "exams"} :
                  Has(pathway_data, key) =>
                      /\ IsList(Get(pathway_data, key))
                      /\ \E i \in 1..Len(Get(pathway_data, key).l) : NamedEntry(Get(pathway_data, key).l[i])

\* the value Agent 1 returned was the one the handler used, and it has a bachelors section
StructureSuppliedBachelors ==
    recorded["structure"] = "result" /\ Has(fut["structure"].val, "bachelors")

\* C3: the document has a `bachelors` key if and only if the request asks for 'bachelor' or
\* the structure agent's own output had a bachelors section.
C3_BachelorsIff ==
    Merged => (Has(pathway_data, "bachelors") <=> (degree_level = "bachelor" \/ StructureSuppliedBachelors))

\* C4: once the outcome of every agent is recorded the handler goes on to the merge; it is
\* never held back by an agent that is still running.
C4_NeverWaitsForAbandonedTask ==
    pc = "shutdown" => ENABLED ExecutorShutdown

\* C5: an agent whose value the handler used returned within its own deadline, counted from
\* the submission of the agents.
C5_DeadlineFromLaunch ==
    \A t \in Tasks : recorded[t] = "result" => ~late[t]

\* the request missed the cache (or the read failed) and the handler has returned
CacheMissDone ==
    pc = "done" /\ response.statusCode # 400 /\ ~(response.statusCode = 200 /\ response.cached)

Denylist == {<<"entry-level">>, <<"position">>, <<"job", " ", "title">>}

\* a job entry with a concrete title
Titled(job) ==
    /\ IsDict(job)
    /\ IsStr(Get(job, "title"))
    /\ Get(job, "title").s # <<>>
    /\ \A pat \in Denylist : ~Contains(Lower(Get(job, "title").s), pat)

\* the tiers of the document that carry careerOutcomes
Tiers(doc) ==
    {tier \in {"associates", "bachelors"} : HasRecord(doc, tier) /\ Has(Get(doc, tier), "careerOutcomes")}

EntryLevelOf(doc, tier) == Get(Get(Get(doc, tier), "careerOutcomes"), "entryLevel").l

MidCareerOf(doc, tier) == Get(Get(Get(doc, tier), "careerOutcomes"), "midCareer").l

\* C7: in the document no entryLevel entry of any tier has an empty or missing title or a
\* title that contains 'entry-level', 'position' or 'job title'.
C7_NoPlaceholderEntryTitles ==
    Merged => \A tier \in Tiers(pathway_data) :
                  \A i \in 1..Len(EntryLevelOf(pathway_data, tier)) :
                      Titled(EntryLevelOf(pathway_data, tier)[i])

\* the outcomes agent's value was used and its associates entryLevel is a non-empty list
OutcomesGaveEntries ==
    /\ recorded["outcomes"] = "result"
    /\ IsDict(career_data) /\ HasRecord(career_data, "associates")
    /\ HasRecord(Get(career_data, "associates"), "careerOutcomes")
    /\ IsList(Get(Get(Get(career_data, "associates"), "careerOutcomes"), "entryLevel"))
    /\ EntryLevelOf(career_data, "associates") # <<>>

\* C8: when the outcomes agent succeeds with a list of associates entryLevel jobs, a list of
\* placeholders only gives exactly the '<career> Assistant' / '<career> Specialist' fallback,
\* and a list with a concrete title gives exactly the concrete titles in their original order.
C8_EntryLevelFiltered ==
    Merged /\ OutcomesGaveEntries =>
        LET valid == SelectSeq(EntryLevelOf(career_data, "associates"), Titled)
            outcomes == Get(Get(pathway_data, "associates"), "careerOutcomes")
        IN IF valid = <<>>
           THEN outcomes = AssociatesOutcomesFallback(career)
           ELSE Get(outcomes, "entryLevel") = List(valid)

\* a list that mixes two concrete titles with a placeholder was filtered
C8_Witness ==
    /\ Merged /\ OutcomesGaveEntries
    /\ EntryLevelOf(career_data, "associates") = <<ChargeNurse, Placeholder, RegisteredNurse>>
    /\ EntryLevelOf(pathway_data, "associates") = <<ChargeNurse, RegisteredNurse>>

\* C9: no tier of the document has an empty midCareer list.
C9_MidCareerNeverEmpty ==
    Merged => \A tier \in Tiers(pathway_data) : MidCareerOf(pathway_data, tier) # <<>>

\* C10: when the outcomes agent failed or timed out, associates.careerOutcomes is exactly the
\* associate fallback and, when bachelors is a record, bachelors.careerOutcomes is exactly
\* the bachelor fallback.
C10_FallbackOutcomesExact ==
    Merged /\ career_data = OutcomesFallback(career) =>
        /\ Get(Get(pathway_data, "associates"), "careerOutcomes") = AssociatesOutcomesFallback(career)
        /\ HasRecord(pathway_data, "bachelors") =>
               Get(Get(pathway_data, "bachelors"), "careerOutcomes") = BachelorsOutcomesFallback(career)

\* the value of Agent 1 that the handler recorded and the merge started from
StructureRecorded ==
    IF recorded["structure"] = "timeout" THEN PathwayTimeoutFallback(career, degree_level)
    ELSE fut["structure"].val

\* C11: when the structure agent's own output has associates.careerOutcomes, the document
\* keeps that value, and when it has top-level clubs and the credentials agent supplies
\* clubs too, the document keeps the structure agent's clubs.
C11_StructureWins ==
    Merged /\ recorded["structure"] = "result" =>
        /\ (HasRecord(StructureRecorded, "associates")
               /\ Has(Get(StructureRecorded, "associates"), "careerOutcomes"))
            => Get(Get(pathway_data, "associates"), "careerOutcomes")
                   = Get(Get(StructureRecorded, "associates"), "careerOutcomes")
        /\ (Has(StructureRecorded, "clubs") /\ Truthy(Get(certifications_data, "clubs")))
            => Get(pathway_data, "clubs") = Get(StructureRecorded, "clubs")

\* C12: the document's career and degreeLevel are the trimmed career and the degreeLevel
\* of the request.
C12_CareerFromRequest ==
    Merged => /\ Get(pathway_data, "career") = Str(career)
              /\ Get(pathway_data, "degreeLevel") = Str(<<degree_level>>)

\* the name a certifications entry goes by: the string itself, or the name of the record
NameOf(entry) == IF IsStr(entry) THEN entry ELSE Get(entry, "name")

\* the certifications list of a document, empty when the key is absent
CertificationsOf(doc) == IF Has(doc, "certifications") THEN Get(doc, "certifications").l ELSE <<>>

\* C13: when the credentials agent's value was used, the document's certifications start with
\* the structure agent's entries, contain every credentials entry, hold no name twice, and
\* clubs is the credentials agent's non-empty clubs list.
C13_CertificationsUnion ==
    Merged /\ recorded["credentials"] = "result" =>
        LET final == CertificationsOf(pathway_data)
            own   == CertificationsOf(StructureRecorded)
            more  == CertificationsOf(certifications_data)
        IN /\ Len(own) <= Len(final) /\ SubSeq(final, 1, Len(own)) = own
           /\ \A i \in 1..Len(more) : \E j \in 1..Len(final) : NameOf(final[j]) = NameOf(more[i])
           /\ \A i, j \in 1..Len(final) : i # j => NameOf(final[i]) # NameOf(final[j])
           /\ Truthy(Get(certifications_data, "clubs"))
                  => Get(pathway_data, "clubs") = Get(certifications_data, "clubs")

\* the flat per-tier financial tables
AssociateTierTable ==
    Dict([tuitionPerYear |-> S("4000-6000"), housingPerMonth |-> S("800-1200"),
          booksPerYear |-> S("1200"), totalCost |-> S("12000-18000")])

BachelorTierTable ==
    Dict([tuitionPerYear |-> S("8000-25000"), housingPerMonth |-> S("1000-1500"),
          booksPerYear |-> S("1500"), totalCost |-> S("21000-35000")])

\* C14: associates.financial is the associate-tier table and, whenever the document has a
\* bachelors key, bachelors.financial is the bachelor-tier table.
C14_FinancialTables ==
    Merged => /\ Get(Get(pathway_data, "associates"), "financial") = AssociateTierTable
              /\ Has(pathway_data, "bachelors") =>
                     /\ IsDict(Get(pathway_data, "bachelors"))
                     /\ Get(Get(pathway_data, "bachelors"), "financial") = BachelorTierTable

\* get_item returned an item for the key of the request
ItemRead == get_result \notin {NotRead, NoItem, ReadError}

\* C15: when the cache read returns an entry, the handler answers 200 with cached = true and
\* exactly the pathway that was read, no generation task is started, nothing is written, and
\* the stored entry is the one that was read.
C15_HitShortCircuits ==
    ItemRead =>
        /\ pc = "done"
        /\ response = [statusCode |-> 200, pathway |-> get_result.pathway,
                       cached |-> TRUE, career |-> career]
        /\ fut = IdleFutures
        /\ writes = 0
        /\ ItemFromStore(table[career_id]) = get_result

\* the request served before the current one
LastServed == served[Len(served)]

\* C16: after a request for a key missed and stored its document, the next request with the
\* same key whose cache read does not fail answers cached = true with the pathway that the
\* first request returned.
C16_RoundTrip ==
    (/\ served # <<>>
     /\ pc \notin {"start", "get_item"}
     /\ LastServed.get_result = NoItem
     /\ LastServed.stored
     /\ LastServed.career_id = career_id
     /\ get_result # ReadError) =>
        /\ pc = "done"
        /\ response.statusCode = 200
        /\ response.cached
        /\ response.pathway = LastServed.response.pathway

\* C17: a failed cache read is followed by the generation as after a miss, and the request
\* ends with every task recorded, and with the merged document, one write attempt and
\* cached = false unless the merge itself raised; a failed cache write is followed by the
\* answer 200 with cached = false and the merged document.
C17_CacheFailuresContained ==
    /\ get_result = ReadError =>
           /\ pc \notin {"start", "get_item"}
           /\ pc = "submit" => ENABLED Submit
           /\ pc = "done" =>
                  /\ \A t \in Tasks : recorded[t] # "none"
                  /\ response.statusCode \in {200, 500}
                  /\ response.statusCode = 200 =>
                         /\ writes = 1
                         /\ response = [statusCode |-> 200, pathway |-> pathway_data,
                                        cached |-> FALSE, career |-> career]
    /\ write_error =>
           /\ pc \in {"respond", "done"}
           /\ pathway_data = Merge(career, degree_level, StructureRecorded, career_data,
                                   certifications_data)
           /\ pc = "done" =>
                  response = [statusCode |-> 200, pathway |-> pathway_data,
                              cached |-> FALSE, career |-> career]

C17_Witness ==
    /\ pc = "done"
    /\ get_result = ReadError
    /\ write_error
    /\ response.statusCode = 200
    /\ ~response.cached

\* C18: a request whose career is missing, empty or blank ends with the answer 400
\* 'Career field is required', with no cache read, no task started and no cache write.
C18_EmptyCareerRejected ==
    (pc # "start" /\ Strip(BodyCareer(event)) = <<>>) =>
        /\ pc = "done"
        /\ response = [statusCode |-> 400, error |-> "Career field is required"]
        /\ get_result = NotRead
        /\ fut = IdleFutures
        /\ writes = 0
        /\ ~write_error
        /\ table = StoredTable

C18_Witness ==
    /\ pc = "done"
    /\ event = [career |-> <<" ">>]
    /\ response.statusCode = 400

\* a career without its letter case, surrounding whitespace and commas
Canonical(c) == SelectSeq(Lower(Strip(c)), LAMBDA a : a # ",")

\* the request has a career, so the handler has built its key
Keyed(ev) == Strip(BodyCareer(ev)) # <<>>

\* C19: the key of a request is the normalized career, a hyphen and the degree level; of two
\* requests, those with the same degree level whose careers differ only in letter case,
\* surrounding whitespace or commas have the same key, and those with different degree
\* levels have different keys.
C19_KeyNormalization ==
    (pc # "start" /\ Keyed(event)) =>
        /\ career_id = Normalize(Strip(BodyCareer(event))) \o <<"-">> \o <<BodyDegreeLevel(event)>>
        /\ \A i \in 1..Len(served) :
               Keyed(served[i].event) =>
                   /\ (/\ Canonical(BodyCareer(served[i].event)) = Canonical(BodyCareer(event))
                       /\ BodyDegreeLevel(served[i].event) = BodyDegreeLevel(event))
                          => served[i].career_id = career_id
                   /\ BodyDegreeLevel(served[i].event) # BodyDegreeLevel(event)
                          => served[i].career_id # career_id

C19_Witness ==
    /\ pc = "get_item"
    /\ served # <<>>
    /\ BodyCareer(LastServed.event) = <<"Mid-Career", ",", " ", "Coach", " ">>
    /\ BodyCareer(event) = <<"mid-career", " ", ",", "coach">>
    /\ LastServed.career_id = career_id

TaskStep ==
    \A t \in Tasks :
        /\ fut[t].st = "idle" => fut'[t].st \in {"idle", "running"}
        /\ fut[t].st = "running" => fut'[t].st \in {"running", "done"}
        /\ fut[t].st = "done" => fut'[t] = fut[t]
        /\ recorded[t] = "none" /\ recorded'[t] # "none" =>
               /\ fut[t].st # "idle"
               /\ recorded'[t] = (IF fut[t].st = "done" THEN "result" ELSE "timeout")
        /\ recorded[t] # "none" => recorded'[t] = recorded[t]

\* what was recorded for a task is kept until the merge takes it
RecordedKept ==
    /\ recorded["structure"] # "none" /\ pc # "merge" => pathway_data' = pathway_data
    /\ recorded["outcomes"] # "none" => career_data' = career_data
    /\ recorded["credentials"] # "none" => certifications_data' = certifications_data

\* the merge of the fallbacks of the tasks recorded as timed out and the values of the others
MergeOfOutcomes ==
    Merge(career, degree_level,
          IF recorded["structure"] = "timeout"
          THEN PathwayTimeoutFallback(career, degree_level) ELSE fut["structure"].val,
          IF recorded["outcomes"] = "timeout"
          THEN OutcomesFallback(career) ELSE fut["outcomes"].val,
          IF recorded["credentials"] = "timeout"
          THEN CertificationsTimeoutFallback ELSE fut["credentials"].val)

\* C21: within one request each task is started once, settles once and is recorded once as
\* a result or as a timeout; what was recorded never changes, and the merged document is
\* built from the fallback of every task recorded as timed out, whatever that task
\* delivered afterwards.
C21_TaskLifecycle ==
    /\ [][TaskStep /\ RecordedKept]_vars
    /\ [](Merged => pathway_data = MergeOfOutcomes)

C21_Witness ==
    /\ Merged
    /\ recorded["credentials"] = "timeout"
    /\ fut["credentials"].st = "done"
    /\ Truthy(Get(fut["credentials"].val, "certifications"))
    /\ ~Has(pathway_data, "certifications") \/ ~Truthy(Get(pathway_data, "certifications"))

\* C23: every merged document has a note, and the note is not empty.
C23_NoteNeverEmpty ==
    Merged => Has(pathway_data, "note") /\ Truthy(Get(pathway_data, "note"))

C23_Witness ==
    /\ Merged
    /\ recorded["structure"] = "result"
    /\ Has(StructureRecorded, "note")
    /\ Get(StructureRecorded, "note") = Str(<<>>)
    /\ Get(pathway_data, "note") = DefaultNote(career)

\* the cache read of the request found nothing, or failed
Missed == get_result \in {NoItem, ReadError}

\* C25: on a cache miss the cache is read before any task is started, every task is started
\* before an outcome is recorded, the merge begins when every outcome is recorded and every
\* task has settled, the cache is written once after the merge, and the response follows
\* the write; no request writes the cache more than once.
C25_MissOrder ==
    /\ writes <= 1
    /\ fut # IdleFutures => get_result # NotRead
    /\ Missed =>
           /\ (\E t \in Tasks : recorded[t] # "none") => \A t \in Tasks : fut[t].st # "idle"
           /\ pc \in {"merge", "put_item", "respond", "done"} =>
                  \A t \in Tasks : recorded[t] # "none" /\ fut[t].st = "done"
           /\ writes = 1 <=> pc \in {"respond", "done"}
           /\ writes = 1 => pathway_data = MergeOfOutcomes
           /\ response # NoResponse <=> pc = "done"

\* the outcomes agent succeeded with a section, a careerOutcomes value or a job entry that
\* is not a record
UnexpectedOutcomes ==
    /\ recorded["outcomes"] = "result"
    /\ IsDict(career_data)
    /\ \E section \in {"associates", "bachelors"} :
           /\ Has(career_data, section)
           /\ \/ ~IsDict(Get(career_data, section))
              \/ /\ Has(Get(career_data, section), "careerOutcomes")
                 /\ \/ ~IsDict(Get(Get(career_data, section), "careerOutcomes"))
                    \/ \E tier \in {"entryLevel", "midCareer"} :
                           LET jobs == Get(Get(Get(career_data, section), "careerOutcomes"), tier)
                           IN IsList(jobs) /\ \E i \in 1..Len(jobs.l) : ~IsDict(jobs.l[i])

\* the structure agent succeeded with an associates or bachelors that is not a record
UnexpectedStructure ==
    /\ recorded["structure"] = "result"
    /\ \E section \in {"associates", "bachelors"} :
           Has(fut["structure"].val, section) /\ ~IsDict(Get(fut["structure"].val, section))

\* C30: a request whose structure or outcomes task succeeded with a section, a
\* careerOutcomes value or a job entry that is not a record is answered 200 with a document
\* whose associates section is a record with careerOutcomes and financial records.
C30_UnexpectedTypesContained ==
    (pc = "done" /\ Missed /\ (UnexpectedOutcomes \/ UnexpectedStructure)) =>
        /\ response.statusCode = 200
        /\ HasRecord(response.pathway, "associates")
        /\ HasRecord(Get(response.pathway, "associates"), "careerOutcomes")
        /\ HasRecord(Get(response.pathway, "associates"), "financial")

\* C26: for every task that was started, the timeout of the task's own provider request is
\* strictly shorter than the timeout of the handler's wait for that task.
C26_CallTimeoutsShorter ==
    \A t \in Tasks : fut[t].st # "idle" => CallTimeout(t) < Timeout(t)

\* the documents of a request for career c and level dl whose three tasks all failed or
\* timed out
AllFallbackDocs(c, dl) ==
    {Merge(c, dl, pd, OutcomesFallback(c), xd) :
        pd \in {StructureFallback(c, dl), PathwayTimeoutFallback(c, dl)},
        xd \in {NoCredentials, CertificationsTimeoutFallback}}

\* the request before the current one stored a document built from fallbacks only
FallbackStored ==
    /\ served # <<>>
    /\ LastServed.stored
    /\ LastServed.response.pathway \in
           AllFallbackDocs(Strip(BodyCareer(LastServed.event)), BodyDegreeLevel(LastServed.event))

\* C29: every cache-miss merge is followed by a write of the merged document, and a request
\* that follows one which stored an all-fallback document under the same key, and whose
\* cache read does not fail, is answered with that document and cached = true without
\* starting a task or writing the cache.
C29_FallbackIsCached ==
    /\ (Missed /\ Merged /\ pc # "put_item") =>
           /\ writes = 1
           /\ ~write_error => table[career_id].pathway = pathway_data
    /\ (/\ pc \notin {"start", "get_item"}
        /\ get_result # ReadError
        /\ served # <<>>
        /\ LastServed.career_id = career_id
        /\ FallbackStored) =>
           /\ pc = "done"
           /\ response = [statusCode |-> 200, pathway |-> LastServed.response.pathway,
                          cached |-> TRUE, career |-> career]
           /\ fut = IdleFutures
           /\ writes = 0

C29_Witness ==
    /\ pc = "done"
    /\ response.statusCode = 200
    /\ response.cached
    /\ served # <<>>
    /\ LastServed.career_id = career_id
    /\ response.pathway = LastServed.response.pathway
    /\ FallbackStored

\* both invocations missed the cache, both have written the key and both have returned
BothWrote ==
    /\ pc = "done"
    /\ get_result = NoItem
    /\ writes = 1
    /\ ~write_error
    /\ rival.pc = "done"
    /\ ~rival.cached

\* C22: when two concurrent invocations for one key both miss the cache and both write the
\* key, the cache holds the document of the invocation that wrote last, whole.
C22_LastWriterWins ==
    BothWrote =>
        table[career_id].pathway = (IF rival.after THEN rival.doc ELSE pathway_data)

C22_Witness ==
    /\ BothWrote
    /\ ~rival.after
    /\ rival.doc # pathway_data
    /\ table[career_id].pathway = pathway_data

\* the names of the candidates that a scan returned for the career
CandidateNames(c, scan, isClubs) ==
    LET ms == PotentialMatches(c, scan, isClubs)
    IN {Get(ms[i], IF isClubs THEN "clubName" ELSE "certificateName") : i \in 1..Len(ms)}

\* C24: every certification and every club that match_certifications returns has the name
\* of a candidate that the scans returned for the career.
C24_OnlyCandidates ==
    probe.fn = "match_certifications" =>
        /\ \A i \in 1..Len(Get(probe.out, "certifications").l) :
               Get(Get(probe.out, "certifications").l[i], "name")
                   \in CandidateNames(probe.career, probe.certScan, FALSE)
        /\ \A i \in 1..Len(Get(probe.out, "clubs").l) :
               Get(Get(probe.out, "clubs").l[i], "name")
                   \in CandidateNames(probe.career, probe.clubScan, TRUE)

\* the structure task built its output from the provider's answer
StructureSucceeded ==
    /\ probe.fn = "generate_pathway_structure"
    /\ Has(probe.out, "rawResponse")

\* C27: every course list under a section of the output of a successful structure task has
\* at most 5 entries.
C27_CourseListsAtMostFive ==
    StructureSucceeded =>
        \A section \in {"associates", "bachelors"}, key \in {"keyCourses", "fullCourseList"} :
            (/\ HasRecord(probe.out, section)
             /\ Has(Get(probe.out, section), key)
             /\ IsList(Get(Get(probe.out, section), key)))
                => Len(Get(Get(probe.out, section), key).l) <= 5

\* C28: when the MDC record has courses, every course that validate_courses_against_mdc
\* returns has a code of the MDC course list.
C28_ValidatedCoursesExist ==
    (/\ probe.fn = "validate_courses_against_mdc"
     /\ Truthy(probe.mdc_data)
     /\ Truthy(Get(probe.mdc_data, "courses"))) =>
        \A i \in 1..Len(probe.out.l) :
            CourseCode(probe.out.l[i]) \in MdcCourseCodes(probe.mdc_data)

====
